---- MODULE Spec2Model ----
(***************************************************************************)
(* Model of the relations / signal-connection subsystem of belly           *)
(* (bevy_elements_core/src/relations/connect.rs): the Connections<C,S>     *)
(* registry with its add / remove protocol, Connect::write, the entity     *)
(* context's render / replace commands, and signal dispatch.               *)
(***************************************************************************)
EXTENDS Integers, Sequences, FiniteSets, TLC

\* ------------------------------------------------------------------ bounds
NumEntities == 2
MaxAdds == 3
MaxSources == 2
MaxWrites == 2
MaxCalls == 3

Entities == 1..NumEntities
Handlers == {"h1"}
Filters == {"always", "positive"}
\* the (component type, signal type) pairs the application connects
Pairs == {"CS1", "CS2"}
\* the element trees a handler renders: two roots, or a root with one child
Builders == {"pair", "nested"}

\* Option<Entity>
None == <<>>
Some(e) == <<e>>

\* ------------------------------------------------------------- connection
\* enum ConnectionTo<C, S>
ConnectionTo ==
    [variant : {"General"}, handler : Handlers]
    \cup [variant : {"Entity", "Component"}, target : Entities, handler : Handlers]

\* ConnectionTo::id, mutated: the Entity variant reports no id
idNoEntity(to) ==
    IF to.variant = "Component" THEN Some(to.target) ELSE None

\* ConnectionTo::id
id(to) ==
    CASE to.variant = "Component" -> Some(to.target)
      [] to.variant = "Entity" -> Some(to.target)
      [] OTHER -> None

\* struct Connection<C, S>
Connection == [target : ConnectionTo, filter : Filters]

\* struct Connect<C, S>
Connect == [source : Entities, target : Connection]

\* ----------------------------------------------------------------- signal
\* the values a signal carries (the filter of the Score scenario tests value > 0)
Values == {-1, 5}

SeqsUpTo(S, n) == UNION {[1..k -> S] : k \in 0..n}

\* an event type implementing Signal (PointerInput: its entities)
Signal == [entities : SeqsUpTo(Entities, MaxSources), value : Values]

\* a sequence in reverse order
Reverse(s) == [i \in 1..Len(s) |-> s[Len(s) + 1 - i]]

\* Signal::sources, mutated: the entities are yielded last to first
sourcesReversed(sig) == Reverse(sig.entities)

\* Signal::sources
sources(sig) == sig.entities

\* the filter function a Connection holds, applied to a signal
FilterApply(f, sig) ==
    CASE f = "always" -> TRUE
      [] f = "positive" -> sig.value > 0

\* Connection::handles, mutated: the filter is not consulted
handlesAlways(c, sig) == TRUE

\* Connection::handles
handles(c, sig) == FilterApply(c.filter, sig)

\* ---------------------------------------------------------------- HashMap
EmptyMap == [k \in {} |-> <<>>]
Keys(m) == DOMAIN m
\* HashMap::insert
Insert(m, k, v) == [x \in (DOMAIN m) \cup {k} |-> IF x = k THEN v ELSE m[x]]
\* HashMap::remove (the map that is left)
Without(m, k) == [x \in (DOMAIN m) \ {k} |-> m[x]]
\* HashMap::entry(k).or_default().push(v)
EntryPush(m, k, v) ==
    IF k \in DOMAIN m THEN Insert(m, k, Append(m[k], v)) ELSE Insert(m, k, <<v>>)

\* --------------------------------------------------------------- registry
\* Connections::default
Default == [map |-> EmptyMap, index |-> EmptyMap]

\* HashMap::entry(k).or_default(), then the value put first instead of pushed
EntryPushFront(m, k, v) ==
    IF k \in DOMAIN m THEN Insert(m, k, <<v>> \o m[k]) ELSE Insert(m, k, <<v>>)

\* Connections::add, mutated: the connection goes to the front of the list
addFront(self, connection) ==
    LET target == id(connection.target.target)
        idx == IF target # None
               THEN EntryPush(self.index, target[1], connection.source)
               ELSE self.index
    IN [map |-> EntryPushFront(self.map, connection.source, connection.target),
        index |-> idx]

\* Connections::add, mutated: the source is not pushed onto index[target]
addNoIndex(self, connection) ==
    [map |-> EntryPush(self.map, connection.source, connection.target),
     index |-> self.index]

\* Connections::add
add(self, connection) ==
    LET target == id(connection.target.target)
        idx == IF target # None
               THEN EntryPush(self.index, target[1], connection.source)
               ELSE self.index
    IN [map |-> EntryPush(self.map, connection.source, connection.target),
        index |-> idx]

\* the loop of Connections::remove, mutated: the kept connections change order
RECURSIVE ScrubReorders(_, _, _)
ScrubReorders(m, connections_to, source) ==
    IF connections_to = <<>> THEN m
    ELSE LET connection_to == Head(connections_to)
             kept(c) == id(c.target) # Some(source)
             m2 == IF connection_to \in DOMAIN m
                   THEN Insert(m, connection_to,
                               Reverse(SelectSeq(m[connection_to], kept)))
                   ELSE m
         IN ScrubReorders(m2, Tail(connections_to), source)

\* the loop of Connections::remove, mutated: connections without a target id
\* are dropped as well
RECURSIVE ScrubDropsGeneral(_, _, _)
ScrubDropsGeneral(m, connections_to, source) ==
    IF connections_to = <<>> THEN m
    ELSE LET connection_to == Head(connections_to)
             kept(c) == id(c.target) # Some(source) /\ id(c.target) # None
             m2 == IF connection_to \in DOMAIN m
                   THEN Insert(m, connection_to, SelectSeq(m[connection_to], kept))
                   ELSE m
         IN ScrubDropsGeneral(m2, Tail(connections_to), source)

\* the loop of Connections::remove, mutated: a list that becomes empty is
\* removed from map
RECURSIVE ScrubPrunes(_, _, _)
ScrubPrunes(m, connections_to, source) ==
    IF connections_to = <<>> THEN m
    ELSE LET connection_to == Head(connections_to)
             kept(c) == id(c.target) # Some(source)
             m2 == IF connection_to \in DOMAIN m
                   THEN IF SelectSeq(m[connection_to], kept) = <<>>
                        THEN Without(m, connection_to)
                        ELSE Insert(m, connection_to,
                                    SelectSeq(m[connection_to], kept))
                   ELSE m
         IN ScrubPrunes(m2, Tail(connections_to), source)

\* the loop of Connections::remove over the sources indexed under `source`
RECURSIVE Scrub(_, _, _)
Scrub(m, connections_to, source) ==
    IF connections_to = <<>> THEN m
    ELSE LET connection_to == Head(connections_to)
             kept(c) == id(c.target) # Some(source)
             m2 == IF connection_to \in DOMAIN m
                   THEN Insert(m, connection_to, SelectSeq(m[connection_to], kept))
                   ELSE m
         IN Scrub(m2, Tail(connections_to), source)

\* Connections::remove, mutated: the lists of the indexed sources are not filtered
removeNoScrub(self, source) ==
    [map |-> Without(self.map, source),
     index |-> Without(self.index, source)]

\* Connections::remove, mutated: the source's own entry is left in map
removeKeepsKey(self, source) ==
    LET scrubbed == IF source \in DOMAIN self.index
                    THEN Scrub(self.map, self.index[source], source)
                    ELSE self.map
    IN [map |-> scrubbed,
        index |-> Without(self.index, source)]

\* Connections::remove, mutated: index[source] is read, not removed
removeKeepsIndex(self, source) ==
    LET scrubbed == IF source \in DOMAIN self.index
                    THEN Scrub(self.map, self.index[source], source)
                    ELSE self.map
    IN [map |-> Without(scrubbed, source),
        index |-> self.index]

\* Connections::remove, mutated: one reverse link is taken off index[source]
\* instead of the whole list
removeOneLink(self, source) ==
    LET scrubbed == IF source \in DOMAIN self.index
                    THEN Scrub(self.map, <<Head(self.index[source])>>, source)
                    ELSE self.map
        idx == IF source \in DOMAIN self.index /\ Len(self.index[source]) > 1
               THEN Insert(self.index, source, Tail(self.index[source]))
               ELSE Without(self.index, source)
    IN [map |-> Without(scrubbed, source),
        index |-> idx]

\* Connections::remove
remove(self, source) ==
    LET scrubbed == IF source \in DOMAIN self.index
                    THEN Scrub(self.map, self.index[source], source)
                    ELSE self.map
    IN [map |-> Without(scrubbed, source),
        index |-> Without(self.index, source)]

\* Connections::entities
entities(self) == Keys(self.map) \cup Keys(self.index)

\* --------------------------------------------------------------- dispatch
\* The dispatch system of one (C, S) pair, for one signal: the sources in
\* emission order, each source's connections in list order, the filter, then
\* the variant (a Component connection needs component C on its target).
\* Yields the handler invocations in order.
\* mutable access to the target's component, mutated: never refused
AccessibleAlways(to, withC) == TRUE

\* the variant's precondition: mutable access to component C of the target of a
\* Component connection is granted only when the target carries C
Accessible(to, withC) ==
    to.variant = "Component" => to.target \in withC

RECURSIVE DispatchList(_, _, _, _)
DispatchList(conns, e, sig, withC) ==
    IF conns = <<>> THEN <<>>
    ELSE LET c == Head(conns)
             run == handles(c, sig) /\ Accessible(c.target, withC)
         IN (IF run THEN <<[source |-> e, connection |-> c]>> ELSE <<>>)
            \o DispatchList(Tail(conns), e, sig, withC)

RECURSIVE DispatchSources(_, _, _, _)
DispatchSources(self, srcs, sig, withC) ==
    IF srcs = <<>> THEN <<>>
    ELSE (IF Head(srcs) \in DOMAIN self.map
          THEN DispatchList(self.map[Head(srcs)], Head(srcs), sig, withC)
          ELSE <<>>)
         \o DispatchSources(self, Tail(srcs), sig, withC)

process_signals(self, sig, withC) == DispatchSources(self, sources(sig), sig, withC)

\* ------------------------------------------------------------------ write
\* RelationsSystems::add_signals_processor::<C, S>: the pair's dispatch system
\* is added to the schedule unless the pair is already registered
add_signals_processor(sys, pair) ==
    IF \E i \in 1..Len(sys) : sys[i] = pair THEN sys ELSE Append(sys, pair)

\* World::get_resource_or_insert_with(Connections::<C, S>::default)
get_resource_or_insert_with(res, pair) ==
    IF pair \in DOMAIN res THEN res ELSE Insert(res, pair, Default)

\* Connect::write, mutated: the dispatch system is not registered
writeNoRegister(w, pair, connect) ==
    LET res == get_resource_or_insert_with(w.resources, pair)
    IN [systems |-> w.systems,
        resources |-> Insert(res, pair, add(res[pair], connect))]

\* Connect::write
write(w, pair, connect) ==
    LET res == get_resource_or_insert_with(w.resources, pair)
    IN [systems |-> add_signals_processor(w.systems, pair),
        resources |-> Insert(res, pair, add(res[pair], connect))]

\* one scheduling step in which a signal of the pair's signal type was emitted:
\* every dispatch system the schedule holds for the pair runs once
RECURSIVE RunSchedule(_, _, _, _, _)
RunSchedule(sys, res, pair, sig, withC) ==
    IF sys = <<>> THEN <<>>
    ELSE (IF Head(sys) = pair /\ pair \in DOMAIN res
          THEN process_signals(res[pair], sig, withC)
          ELSE <<>>)
         \o RunSchedule(Tail(sys), res, pair, sig, withC)

\* the dispatch loop, mutated: a handler is called while another still runs
MayCallAlways(holding) == TRUE

\* the dispatch loop calls a handler synchronously: the next call is made only
\* after the previous handler returned
MayCall(holding) == holding = <<>>

\* --------------------------------------------------------------- commands
\* the command EntityCommands::despawn_descendants enqueues
DespawnDescendants(target, k) ==
    [cmd |-> "despawn_descendants", entity |-> target, call |-> k, by |-> "replace"]

\* the command WithElements::with_elements enqueues
WithElements(target, eml, k, by) ==
    [cmd |-> "with_elements", entity |-> target, eml |-> eml, call |-> k, by |-> by]

\* a command a handler hands to ConnectionGeneralContext::add: the recursive
\* despawn of an entity
DespawnRecursive(entity, k) ==
    [cmd |-> "despawn", entity |-> entity, call |-> k, by |-> "add"]

\* ConnectionGeneralContext::add, mutated: the command goes to the front
ctx_addFront(q, command) == <<command>> \o q

\* ConnectionGeneralContext::add (self.commands.add(command))
ctx_add(q, command) == Append(q, command)

\* ConnectionEntityContext::render; k numbers the call
render(q, target, eml, k) ==
    Append(q, WithElements(target, eml, k, "render"))

\* ConnectionEntityContext::replace, mutated: the two commands change places
replaceSpawnFirst(q, target, eml, k) ==
    Append(Append(q, WithElements(target, eml, k, "replace")),
           DespawnDescendants(target, k))

\* ConnectionEntityContext::replace; k numbers the call
replace(q, target, eml, k) ==
    Append(Append(q, DespawnDescendants(target, k)),
           WithElements(target, eml, k, "replace"))

\* the host's entity tree
RECURSIVE Ancestors(_, _)
Ancestors(w, n) ==
    IF w[n].parent \notin DOMAIN w THEN {}
    ELSE {w[n].parent} \cup Ancestors(w, w[n].parent)

Descendants(w, t) == {n \in DOMAIN w : t \in Ancestors(w, n)}

Children(w, t) == {n \in DOMAIN w : w[n].parent = t}

\* number of entities a tree spawns
TreeSize(eml) == 2

\* the entities a tree spawns under target, from the id `fresh` on
Spawned(eml, target, fresh, k) ==
    CASE eml = "pair" ->
           [n \in {fresh, fresh + 1} |-> [parent |-> target, origin |-> k]]
      [] eml = "nested" ->
           [n \in {fresh, fresh + 1} |->
               [parent |-> IF n = fresh THEN target ELSE fresh, origin |-> k]]

\* the host applies one command to the tree; a command for an entity that no
\* longer exists does nothing
ApplyCommand(w, c, fresh) ==
    IF c.entity \notin DOMAIN w THEN w
    ELSE CASE c.cmd = "despawn_descendants" ->
                [n \in (DOMAIN w) \ Descendants(w, c.entity) |-> w[n]]
           [] c.cmd = "despawn" ->
                [n \in (DOMAIN w) \ ({c.entity} \cup Descendants(w, c.entity))
                    |-> w[n]]
           [] c.cmd = "with_elements" ->
                LET new == Spawned(c.eml, c.entity, fresh, c.call)
                IN [n \in (DOMAIN w) \cup (DOMAIN new) |->
                       IF n \in DOMAIN new THEN new[n] ELSE w[n]]

\* ------------------------------------------------------------------ state
VARIABLES
    map,        \* Connections::map
    index,      \* Connections::index
    hasC,       \* the entities that carry component C
    invoked,    \* the handler invocations of the last operation, in order
    last,       \* the last operation and its arguments
    nadds,      \* number of add calls so far
    added,      \* per source: the connections added and not removed, in add order
    removed,    \* the entities removed and not added as a source since
    systems,    \* the dispatch systems in the host schedule, by (C, S) pair
    resources,  \* the world's Connections<C, S> resources, by (C, S) pair
    queue,      \* the deferred command queue (Commands)
    world,      \* the entity tree: per living entity its parent and its origin
    phase,      \* "run": systems run and enqueue; "apply": the queue is applied
    ncalls,     \* number of render / replace calls so far
    nextId,     \* the next entity id the host hands out
    killed,     \* per despawned entity: the call whose command despawned it
    pending,    \* the handler calls the running dispatch still has to make
    holding     \* the handler calls in progress; a Component call holds the
                \* mutable access to its target's component C

regVars == <<map, index, nadds, added, removed>>
dispVars == <<hasC, invoked>>
writeVars == <<systems, resources>>
cmdVars == <<queue, world, phase, ncalls, nextId, killed>>
runVars == <<pending, holding>>
vars == <<regVars, dispVars, writeVars, cmdVars, runVars, last>>

\* no dispatch system is running
Idle == pending = <<>> /\ holding = <<>>

Registry == [map |-> map, index |-> index]

Init ==
    /\ map = Default.map
    /\ index = Default.index
    /\ hasC = {}
    /\ invoked = <<>>
    /\ last = [op |-> "init"]
    /\ nadds = 0
    /\ added = [e \in Entities |-> <<>>]
    /\ removed = {}
    /\ systems = <<>>
    /\ resources = EmptyMap
    /\ queue = <<>>
    /\ world = [e \in Entities |-> [parent |-> 0, origin |-> 0]]
    /\ phase = "run"
    /\ ncalls = 0
    /\ nextId = NumEntities + 1
    /\ killed = EmptyMap
    /\ pending = <<>>
    /\ holding = <<>>

\* a call of Connections::add
Add ==
    /\ nadds < MaxAdds
    /\ \E connection \in Connect :
         /\ map' = add(Registry, connection).map
         /\ index' = add(Registry, connection).index
         /\ last' = [op |-> "add", connect |-> connection,
                     id |-> id(connection.target.target)]
         /\ added' = [added EXCEPT ![connection.source] =
                         Append(@, connection.target)]
         /\ removed' = removed \ {connection.source}
    /\ nadds' = nadds + 1
    /\ invoked' = <<>>
    /\ UNCHANGED <<hasC, writeVars, cmdVars, runVars>>

\* a call of Connections::remove
Remove ==
    /\ \E source \in Entities :
         /\ map' = remove(Registry, source).map
         /\ index' = remove(Registry, source).index
         /\ last' = [op |-> "remove", source |-> source,
                     keyed |-> source \in Keys(map),
                     indexed |-> source \in Keys(index),
                     was |-> IF source \in Keys(index) THEN index[source] ELSE <<>>,
                     dropped |->
                         [s \in Entities |->
                             IF s \in Keys(map) /\ s \in Keys(remove(Registry, source).map)
                             THEN Len(map[s]) - Len(remove(Registry, source).map[s])
                             ELSE 0]]
         /\ added' = [e \in Entities |->
                        IF e = source THEN <<>>
                        ELSE SelectSeq(added[e],
                               LAMBDA c : ~(c.target.variant # "General"
                                            /\ c.target.target = source))]
         /\ removed' = removed \cup {source}
    /\ invoked' = <<>>
    /\ UNCHANGED <<hasC, nadds, writeVars, cmdVars, runVars>>

\* the host inserts or removes component C on an entity
SetComponent ==
    /\ Idle
    /\ \E e \in Entities :
         /\ hasC' = IF e \in hasC THEN hasC \ {e} ELSE hasC \cup {e}
         /\ last' = [op |-> "component", entity |-> e]
    /\ invoked' = <<>>
    /\ UNCHANGED <<regVars, writeVars, cmdVars, runVars>>

\* one signal is delivered by the dispatch system
Dispatch ==
    /\ \E sig \in Signal :
         /\ invoked' = process_signals(Registry, sig, hasC)
         /\ last' = [op |-> "dispatch", signal |-> sig]
    /\ UNCHANGED <<regVars, hasC, writeVars, cmdVars, runVars>>

\* a call of Connect::write for a (C, S) pair
Write ==
    /\ Idle
    /\ nadds < MaxWrites
    /\ \E pair \in Pairs, connect \in Connect :
         LET w == write([systems |-> systems, resources |-> resources], pair, connect)
         IN /\ systems' = w.systems
            /\ resources' = w.resources
            /\ last' = [op |-> "write", pair |-> pair, connect |-> connect,
                        first |-> pair \notin Keys(resources),
                        before |-> systems]
    /\ nadds' = nadds + 1
    /\ invoked' = <<>>
    /\ UNCHANGED <<map, index, added, removed, hasC, cmdVars, runVars>>

\* a signal of a pair's signal type is emitted and the schedule runs
Emit ==
    /\ \E pair \in Pairs, sig \in Signal :
         /\ invoked' = RunSchedule(systems, resources, pair, sig, hasC)
         /\ last' = [op |-> "emit", pair |-> pair, signal |-> sig]
    /\ UNCHANGED <<regVars, hasC, writeVars, cmdVars, runVars>>

\* a signal of a pair's signal type is emitted and the pair's dispatch system
\* starts: the handler calls it is going to make, in order
DispatchStart ==
    /\ Idle
    /\ \E pair \in Pairs, sig \in Signal :
         /\ pending' = RunSchedule(systems, resources, pair, sig, hasC)
         /\ pending' # <<>>
         /\ last' = [op |-> "start", pair |-> pair, signal |-> sig]
    /\ invoked' = <<>>
    /\ holding' = <<>>
    /\ UNCHANGED <<regVars, hasC, writeVars, cmdVars>>

\* the dispatch system calls the next handler; a Component handler receives
\* the mutable access to its target's component
HandlerCall ==
    /\ pending # <<>>
    /\ MayCall(holding)
    /\ holding' = Append(holding, Head(pending))
    /\ pending' = Tail(pending)
    /\ last' = [op |-> "call", invocation |-> Head(pending)]
    /\ UNCHANGED <<regVars, dispVars, writeVars, cmdVars>>

\* a running handler returns and gives its access back
HandlerReturn ==
    /\ \E i \in 1..Len(holding) :
         /\ holding' = SubSeq(holding, 1, i - 1) \o SubSeq(holding, i + 1, Len(holding))
         /\ invoked' = Append(invoked, holding[i])
         /\ last' = [op |-> "return", invocation |-> holding[i]]
    /\ UNCHANGED <<regVars, hasC, writeVars, cmdVars, pending>>

\* a handler enqueues a command of its own through add
ContextAdd ==
    /\ phase = "run"
    /\ ncalls < MaxCalls
    /\ \E entity \in DOMAIN world :
         /\ queue' = ctx_add(queue, DespawnRecursive(entity, ncalls + 1))
         /\ last' = [op |-> "add_command", entity |-> entity]
    /\ ncalls' = ncalls + 1
    /\ UNCHANGED <<regVars, dispVars, writeVars, world, phase, nextId, killed, runVars>>

\* a handler calls render on its context
Render ==
    /\ phase = "run"
    /\ ncalls < MaxCalls
    /\ \E target \in DOMAIN world, eml \in Builders :
         /\ queue' = render(queue, target, eml, ncalls + 1)
         /\ last' = [op |-> "render", target |-> target, eml |-> eml]
    /\ ncalls' = ncalls + 1
    /\ UNCHANGED <<regVars, dispVars, writeVars, world, phase, nextId, killed, runVars>>

\* a handler calls replace on its context
Replace ==
    /\ phase = "run"
    /\ ncalls < MaxCalls
    /\ \E target \in DOMAIN world, eml \in Builders :
         /\ queue' = replace(queue, target, eml, ncalls + 1)
         /\ last' = [op |-> "replace", target |-> target, eml |-> eml]
    /\ ncalls' = ncalls + 1
    /\ UNCHANGED <<regVars, dispVars, writeVars, world, phase, nextId, killed, runVars>>

\* the step ends: the host starts applying the queue
Barrier ==
    /\ phase = "run"
    /\ queue # <<>>
    /\ phase' = "apply"
    /\ last' = [op |-> "barrier"]
    /\ UNCHANGED <<regVars, dispVars, writeVars, queue, world, ncalls, nextId, killed, runVars>>

\* the host applies the command at the head of the queue
Apply ==
    /\ phase = "apply"
    /\ queue # <<>>
    /\ LET c == Head(queue)
           w == ApplyCommand(world, c, nextId)
           gone == (DOMAIN world) \ (DOMAIN w)
       IN /\ world' = w
          /\ nextId' = IF (DOMAIN w) \ (DOMAIN world) = {} THEN nextId
                       ELSE nextId + TreeSize(c.eml)
          /\ killed' = [n \in (DOMAIN killed) \cup gone |->
                           IF n \in gone THEN c.call ELSE killed[n]]
          /\ last' = [op |-> "apply", command |-> c]
    /\ queue' = Tail(queue)
    /\ phase' = IF Tail(queue) = <<>> THEN "run" ELSE "apply"
    /\ UNCHANGED <<regVars, dispVars, writeVars, ncalls, runVars>>

Next == Add \/ Remove

Spec == Init /\ [][Next]_vars

NextDispatch == Add \/ Remove \/ SetComponent \/ Dispatch

SpecDispatch == Init /\ [][NextDispatch]_vars

NextWrite == Write \/ SetComponent \/ Emit

SpecWrite == Init /\ [][NextWrite]_vars

NextHandlers == Write \/ SetComponent \/ DispatchStart \/ HandlerCall \/ HandlerReturn

SpecHandlers == Init /\ [][NextHandlers]_vars

NextCommands == ContextAdd \/ Render \/ Replace \/ Barrier \/ Apply

SpecCommands == Init /\ [][NextCommands]_vars
\* ------------------------------------------------------- helpers of claims
\* connection c is delivered to entity e
Targets(c, e) == c.target.variant \in {"Entity", "Component"} /\ c.target.target = e

\* number of positions of sequence s holding x
Occ(s, x) == Cardinality({i \in 1..Len(s) : s[i] = x})

\* number of connections of source s delivered to t
Links(s, t) ==
    IF s \in Keys(map)
    THEN Cardinality({i \in 1..Len(map[s]) : Targets(map[s][i], t)})
    ELSE 0

\* the filter passes and the variant's precondition holds
Eligible(c, sig) ==
    /\ FilterApply(c.filter, sig)
    /\ (c.target.variant = "Component" => c.target.target \in hasC)

\* the invocations of source e
Of(invs, e) == SelectSeq(invs, LAMBDA r : r.source = e)

\* the invocations one visit of source e owes, from the record of what was added
RegisteredRun(e, sig) ==
    LET el == SelectSeq(added[e], LAMBDA c : Eligible(c, sig))
    IN [i \in 1..Len(el) |-> [source |-> e, connection |-> el[i]]]

RECURSIVE InOrder(_, _)
InOrder(srcs, sig) ==
    IF srcs = <<>> THEN <<>>
    ELSE RegisteredRun(Head(srcs), sig) \o InOrder(Tail(srcs), sig)

\* ------------------------------------------------------------------ claims
\* C1: immediately after remove(source), no connection list of any other
\* entity in map holds a connection whose target id is Some(source).
C1_NoReferenceAfterRemove ==
    last.op = "remove" =>
        \A s \in Keys(map) \ {last.source} :
            \A i \in 1..Len(map[s]) : ~Targets(map[s][i], last.source)

\* a remove that emptied another entity's list of its connections to the source
C1_Witness ==
    /\ last.op = "remove"
    /\ last.indexed
    /\ \E s \in Keys(map) \ {last.source} : map[s] = <<>>

\* C2: for every pair (s, t) the number of occurrences of s in index[t] equals
\* the number of connections in map[s] whose target id is Some(t).
C2_IndexMatchesMap ==
    \A s \in Entities, t \in Entities :
        (IF t \in Keys(index) THEN Occ(index[t], s) ELSE 0) = Links(s, t)

\* C3: immediately after remove(source), map has no entry keyed by source.
C3_SourceKeyGone ==
    last.op = "remove" => last.source \notin Keys(map)

\* a remove of an entity that was a key of map, and indexed under itself
C3_Witness ==
    /\ last.op = "remove"
    /\ last.keyed
    /\ last.indexed
    /\ \E t \in Keys(index) : Occ(index[t], last.source) > 0

\* C4: after remove(source) and until an add registers that source again, a
\* signal whose sources include source invokes no handler on its behalf.
C4_RemovedSourceSilent ==
    last.op = "dispatch" =>
        \A e \in removed : Of(invoked, e) = <<>>

\* a signal of value 5 naming a removed source and a source that still fires
C4_Witness ==
    /\ last.op = "dispatch"
    /\ last.signal.value = 5
    /\ \E e \in removed : Occ(sources(last.signal), e) > 0
    /\ invoked # <<>>

\* C5: the handlers of a source's connections that accept the signal are
\* invoked in the order in which the connections were added.
C5_RegistrationOrder ==
    last.op = "dispatch" =>
        \A e \in Entities :
            Of(invoked, e) = Of(InOrder(sources(last.signal), last.signal), e)

\* three different connections of one source, all invoked by one signal
C5_Witness ==
    /\ last.op = "dispatch"
    /\ \E e \in Entities :
         /\ sources(last.signal) = <<e>>
         /\ Len(added[e]) = 3
         /\ Cardinality({added[e][i] : i \in 1..3}) = 3
         /\ Len(invoked) = 3

\* C6: a handler is never invoked for a signal its filter rejects, and it is
\* invoked, once per visit of its source, for every signal its filter accepts
\* when the variant's precondition holds.
C6_FilterDecides ==
    last.op = "dispatch" =>
        /\ \A i \in 1..Len(invoked) :
               FilterApply(invoked[i].connection.filter, last.signal)
        /\ \A e \in Keys(map) : \A c \in {map[e][i] : i \in 1..Len(map[e])} :
               Eligible(c, last.signal) =>
                   Occ(invoked, [source |-> e, connection |-> c])
                       = Occ(sources(last.signal), e) * Occ(map[e], c)

\* a signal of value -1: a connection filtering on value > 0 is passed over and
\* a connection of the same source that accepts every signal is invoked
C6_Witness ==
    /\ last.op = "dispatch"
    /\ last.signal.value = -1
    /\ \E e \in Keys(map) :
         /\ Occ(sources(last.signal), e) > 0
         /\ \E i \in 1..Len(map[e]) : map[e][i].filter = "positive"
         /\ Of(invoked, e) # <<>>

\* C7: a Component connection that accepts the signal while its target lacks
\* component C is not invoked, and the connections after it, of that source
\* and of the later sources, are still served.
C7_AbsentComponentSkipped ==
    last.op = "dispatch" =>
        /\ \A i \in 1..Len(invoked) :
               LET to == invoked[i].connection.target
               IN to.variant = "Component" => to.target \in hasC
        /\ \A e \in Keys(map) : \A i \in 1..Len(map[e]) :
               (/\ map[e][i].target.variant # "Component"
                /\ FilterApply(map[e][i].filter, last.signal)
                /\ Occ(sources(last.signal), e) > 0)
               => Occ(invoked, [source |-> e, connection |-> map[e][i]]) > 0

\* a Component connection whose target lacks C accepts the signal and is passed
\* over; a later connection of the same source and a later source are served
C7_Witness ==
    /\ last.op = "dispatch"
    /\ Len(sources(last.signal)) = 2
    /\ LET e == sources(last.signal)[1]
           f == sources(last.signal)[2]
       IN /\ e # f
          /\ e \in Keys(map)
          /\ Len(map[e]) = 2
          /\ map[e][1].target.variant = "Component"
          /\ map[e][1].target.target \notin hasC
          /\ FilterApply(map[e][1].filter, last.signal)
          /\ Len(Of(invoked, e)) = 1
          /\ Of(invoked, f) # <<>>
\* C8: each (C, S) pair that has had a write has exactly one dispatch system
\* registered: the pair's first write registers it, a later write leaves the
\* registered systems as they were, and one signal invokes each matching
\* connection once per visit of its source.
C8_OneSystemPerPair ==
    /\ \A p \in Pairs :
           Occ(systems, p) = (IF p \in Keys(resources) THEN 1 ELSE 0)
    /\ last.op = "write" =>
           systems = (IF last.first THEN Append(last.before, last.pair)
                      ELSE last.before)
    /\ last.op = "emit" /\ last.pair \in Keys(resources) =>
           LET m == resources[last.pair].map
           IN \A e \in Keys(m) : \A c \in {m[e][i] : i \in 1..Len(m[e])} :
                  Eligible(c, last.signal) =>
                      Occ(invoked, [source |-> e, connection |-> c])
                          = Occ(sources(last.signal), e) * Occ(m[e], c)

\* two writes for one pair, then a signal that invokes both connections
C8_Witness ==
    /\ last.op = "emit"
    /\ last.pair \in Keys(resources)
    /\ \E e \in Keys(resources[last.pair].map) :
         /\ Len(resources[last.pair].map[e]) = 2
         /\ sources(last.signal) = <<e>>
         /\ Len(invoked) = 2

\* the despawn command of the replace call that enqueued command c
DespawnOf(c) == DespawnDescendants(c.entity, c.call)

\* C9: replace enqueues the despawn of the target's descendants right before
\* the append of the new tree; applied in queue order to a target that still
\* exists, they leave the target with the new tree's roots as its only
\* children and the new tree as its only descendants, and the replace
\* despawns no entity of its own tree.
C9_ReplaceOrder ==
    /\ \A i \in 1..Len(queue) :
           LET c == queue[i]
           IN /\ (c.by = "replace" /\ c.cmd = "with_elements") =>
                     IF i > 1 THEN queue[i - 1] = DespawnOf(c)
                     ELSE last.op = "apply" /\ last.command = DespawnOf(c)
              /\ (c.by = "replace" /\ c.cmd = "despawn_descendants") =>
                     /\ i < Len(queue)
                     /\ queue[i + 1].cmd = "with_elements"
                     /\ DespawnOf(queue[i + 1]) = c
    /\ (/\ last.op = "apply"
        /\ last.command.cmd = "with_elements"
        /\ last.command.by = "replace"
        /\ last.command.entity \in DOMAIN world) =>
           LET t == last.command.entity
               k == last.command.call
           IN /\ Cardinality(Children(world, t))
                     = (IF last.command.eml = "pair" THEN 2 ELSE 1)
              /\ Cardinality(Descendants(world, t)) = 2
              /\ \A n \in Descendants(world, t) : world[n].origin = k
              /\ \A n \in DOMAIN killed : killed[n] = k => n \notin DOMAIN world
    /\ \A n \in DOMAIN world : world[n].parent = 0 \/ world[n].parent \in DOMAIN world

\* the second command of a replace was applied to a target that had descendants
\* which the replace's first command despawned
C9_Witness ==
    /\ last.op = "apply"
    /\ last.command.cmd = "with_elements"
    /\ last.command.by = "replace"
    /\ last.command.entity \in DOMAIN world
    /\ \E n \in DOMAIN killed : killed[n] = last.command.call

\* C10: add appends the connection at the end of map[source], creating the
\* list if absent, and appends the source at the end of index[t] exactly when
\* the connection's target id is Some(t); everything else is left as it was.
C10_AddAppends ==
    [][last'.op = "add" =>
        LET s == last'.connect.source
            c == last'.connect.target
        IN /\ Keys(map') = Keys(map) \cup {s}
           /\ map'[s] = (IF s \in Keys(map) THEN map[s] ELSE <<>>) \o <<c>>
           /\ \A e \in Keys(map) \ {s} : map'[e] = map[e]
           /\ IF c.target.variant = "General"
              THEN index' = index
              ELSE LET t == c.target.target
                   IN /\ Keys(index') = Keys(index) \cup {t}
                      /\ index'[t] =
                           (IF t \in Keys(index) THEN index[t] ELSE <<>>) \o <<s>>
                      /\ \A e \in Keys(index) \ {t} : index'[e] = index[e]
    ]_vars

\* the same source and target added twice: two entries in both lists
C10_Witness ==
    /\ last.op = "add"
    /\ LET s == last.connect.source
           c == last.connect.target
       IN /\ c.target.variant = "Entity"
          /\ map[s] = <<c, c>>
          /\ index[c.target.target] = <<s, s>>
\* C11: ConnectionTo::id returns Some(target) for the Entity and Component
\* variants and None for the General variant, for every target entity.
C11_IdByVariant ==
    last.op = "add" =>
        LET to == last.connect.target.target
        IN last.id = (IF to.variant = "General" THEN <<>> ELSE <<to.target>>)

\* an add whose connection is of the Entity variant
C11_Witness ==
    /\ last.op = "add"
    /\ last.connect.target.target.variant = "Entity"
    /\ last.id = <<last.connect.target.target.target>>

\* C12: for every source s keyed in map, map[s] lists exactly the connections
\* added for s and not removed since, in the order in which they were added.
C12_MapKeepsAddOrder ==
    \A s \in Entities :
        IF s \in Keys(map) THEN map[s] = added[s] ELSE added[s] = <<>>

\* a remove dropped one connection of a source and left two different ones
C12_Witness ==
    /\ last.op = "remove"
    /\ \E s \in Keys(map) :
         /\ last.dropped[s] = 1
         /\ Len(map[s]) = 2
         /\ map[s][1] # map[s][2]

\* C13: remove(e) changes only what refers to e: every other source keeps its
\* list minus exactly the connections whose target id is Some(e), and index[t]
\* is unchanged for every t other than e.
C13_RemoveFrame ==
    [][last'.op = "remove" =>
        LET e == last'.source
        IN /\ \A s \in Keys(map) \ {e} :
                  /\ s \in Keys(map')
                  /\ map'[s] = SelectSeq(map[s], LAMBDA c : ~Targets(c, e))
           /\ \A t \in Keys(index) \ {e} :
                  /\ t \in Keys(index')
                  /\ index'[t] = index[t]
           /\ Keys(index') \subseteq Keys(index)
    ]_vars

\* a remove dropped a connection of another source and left it a General
\* connection and a connection to another target, indexed under that target
C13_Witness ==
    /\ last.op = "remove"
    /\ \E s \in Keys(map) \ {last.source} :
         /\ last.dropped[s] = 1
         /\ Len(map[s]) = 2
         /\ \E i \in 1..2 : map[s][i].target.variant = "General"
         /\ \E i \in 1..2 : \E t \in Keys(index) \ {last.source} :
                Targets(map[s][i], t)

\* C14: remove(t) deletes the whole list index[t] and every connection to t,
\* however many a source registered; no operation takes a single entry off
\* an index list (a list only grows at its end or goes as a whole).
C14_CoarseRemoval ==
    [][/\ \A t \in Keys(index) :
              t \in Keys(index') =>
                  /\ Len(index'[t]) >= Len(index[t])
                  /\ SubSeq(index'[t], 1, Len(index[t])) = index[t]
       /\ last'.op = "remove" =>
              /\ last'.source \notin Keys(index')
              /\ \A s \in Keys(map') : \A i \in 1..Len(map'[s]) :
                     ~Targets(map'[s][i], last'.source)
    ]_vars

\* a source was indexed twice under the removed entity and lost two connections
C14_Witness ==
    /\ last.op = "remove"
    /\ \E s \in Keys(map) \ {last.source} :
         /\ Occ(last.was, s) >= 2
         /\ last.dropped[s] >= 2
\* C18: every connection stored in map[s] with target id Some(t) has s at
\* least once in index[t].
C18_IndexCoversMap ==
    \A s \in Keys(map) : \A i \in 1..Len(map[s]) : \A t \in Entities :
        Targets(map[s][i], t) => (t \in Keys(index) /\ Occ(index[t], s) >= 1)

\* a source with one connection to a target is listed twice under it (once
\* from a connection that its own removal took away)
C18_Witness ==
    \E s \in Keys(map) : \E t \in Keys(index) :
        Links(s, t) = 1 /\ Occ(index[t], s) = 2

\* C19: remove is idempotent and total: removing again the entity just removed
\* changes nothing, and removing an entity that is a key of neither map nor
\* index leaves the registry as it was.
C19_RemoveIdempotent ==
    [][last'.op = "remove" =>
        LET after == [map |-> map', index |-> index']
        IN /\ remove(after, last'.source) = after
           /\ (~last'.keyed /\ ~last'.indexed) => (map' = map /\ index' = index)
    ]_vars

\* a remove of an entity that was a key of neither map nor index, in a registry
\* that holds connections
C19_Witness ==
    /\ last.op = "remove"
    /\ ~last.keyed
    /\ ~last.indexed
    /\ Keys(map) # {}
    /\ Keys(index) # {}

\* C20: remove(e) deletes no map key other than e, also when a list has become
\* empty, and creates none; the keys left are still yielded by entities().
C20_RemoveKeepsKeys ==
    [][last'.op = "remove" =>
        /\ Keys(map') = Keys(map) \ {last'.source}
        /\ Keys(map') \subseteq entities([map |-> map', index |-> index'])
    ]_vars

\* a remove emptied the list of another source, which is still a key of map
C20_Witness ==
    /\ last.op = "remove"
    /\ \E s \in Keys(map) \ {last.source} :
         /\ last.dropped[s] >= 1
         /\ map[s] = <<>>
         /\ s \in entities(Registry)
\* the sources of the invocations a signal owes: each listed source that is a
\* key of map, once per connection of its list that is eligible
RECURSIVE SourceBlocks(_, _)
SourceBlocks(srcs, sig) ==
    IF srcs = <<>> THEN <<>>
    ELSE LET e == Head(srcs)
             n == IF e \in Keys(map)
                  THEN Len(SelectSeq(map[e], LAMBDA c : Eligible(c, sig)))
                  ELSE 0
         IN [i \in 1..n |-> e] \o SourceBlocks(Tail(srcs), sig)

\* C15: dispatch visits the signal's sources in their listed order and invokes
\* only connections stored in map under those entities; a source without a map
\* entry is passed over, and a connection keyed by an entity that is not among
\* the sources is never invoked.
C15_SourcesInListedOrder ==
    last.op = "dispatch" =>
        /\ \A i \in 1..Len(invoked) :
               /\ \E j \in 1..Len(last.signal.entities) :
                      last.signal.entities[j] = invoked[i].source
               /\ invoked[i].source \in Keys(map)
               /\ \E j \in 1..Len(map[invoked[i].source]) :
                      map[invoked[i].source][j] = invoked[i].connection
        /\ [i \in 1..Len(invoked) |-> invoked[i].source]
               = SourceBlocks(last.signal.entities, last.signal)

\* a signal whose first source has no map entry and whose second source, with
\* a smaller id, is served
C15_Witness ==
    /\ last.op = "dispatch"
    /\ Len(last.signal.entities) = 2
    /\ last.signal.entities[1] \notin Keys(map)
    /\ last.signal.entities[2] < last.signal.entities[1]
    /\ Of(invoked, last.signal.entities[2]) # <<>>
\* C16: what a handler enqueues through its context is only appended to the
\* deferred queue while systems run, leaving the entity tree as it is; the tree
\* changes only when the host, after the step, applies the command at the head
\* of the queue.
C16_CommandsDeferred ==
    [][/\ last'.op \in {"add_command", "render", "replace"} =>
              /\ phase = "run" /\ phase' = "run"
              /\ world' = world
              /\ Len(queue') > Len(queue)
              /\ SubSeq(queue', 1, Len(queue)) = queue
       /\ phase = "run" => world' = world
       /\ (world' # world \/ last'.op = "apply") =>
              /\ phase = "apply"
              /\ last'.op = "apply"
              /\ last'.command = Head(queue)
              /\ queue' = Tail(queue)
    ]_vars

\* the despawn a handler enqueued first has taken effect at the barrier while a
\* command enqueued after it still waits in the queue
C16_Witness ==
    /\ last.op = "apply"
    /\ last.command.by = "add"
    /\ last.command.entity \notin DOMAIN world
    /\ queue # <<>>
    /\ queue[1].call > last.command.call
\* C17: within the dispatch of one (C, S) pair at most one handler runs at any
\* time, so no two Component handlers in progress hold the mutable access to
\* component C of the same target entity.
C17_ExclusiveComponentAccess ==
    /\ Len(holding) <= 1
    /\ \A i, j \in 1..Len(holding) :
          (/\ i # j
           /\ holding[i].connection.target.variant = "Component"
           /\ holding[j].connection.target.variant = "Component")
          => holding[i].connection.target.target # holding[j].connection.target.target

\* two matching Component connections name the same target: the handler of
\* the first has returned and the handler of the second now holds the access
C17_Witness ==
    /\ Len(holding) = 1
    /\ Len(invoked) >= 1
    /\ holding[1].connection.target.variant = "Component"
    /\ invoked[Len(invoked)].connection.target.variant = "Component"
    /\ invoked[Len(invoked)].connection.target.target
          = holding[1].connection.target.target
====
